---- MODULE Spec2Model ----
(***************************************************************************)
(* Firefly Studio desktop launcher (studio-desktop/src-tauri/src/main.rs). *)
(*                                                                         *)
(* The launcher picks a free port, spawns the sidecar, polls /api/health   *)
(* in a background task, navigates the main window on success and kills    *)
(* the sidecar when the window is destroyed.                               *)
(*                                                                         *)
(* Execution contexts:                                                     *)
(*   - the setup closure and the window-event closure are both callbacks   *)
(*     of the builder chain  .setup(..).on_window_event(..).run(..) ; the  *)
(*     event loop runs them one at a time, the setup closure first;        *)
(*   - the health task runs on the async runtime and interleaves freely    *)
(*     with the callbacks;                                                 *)
(*   - the sidecar is an independent OS process.                           *)
(* Time is measured in milliseconds since `start` (Instant::now()).        *)
(***************************************************************************)
EXTENDS Integers, Sequences, FiniteSets

VARIABLES
    app,          \* "running" | "exited": the launcher process
    spc,          \* position of the setup closure
    port,         \* `port` of setup (0 = not yet allocated)
    sidecarPath,  \* `sidecar_path` of setup
    locateIn,     \* what find_sidecar met: platform and file system
    spawnArgs,    \* argument vector the sidecar was started with
    slot,         \* SidecarState: Mutex<Option<Child>>
    child,        \* OS state of the sidecar process
    spawns,       \* number of processes spawned
    kills,        \* number of Child::kill calls
    waits,        \* number of Child::wait calls that returned
    hpc,          \* position of the window-event closure
    hchild,       \* `child` local of the window-event closure
    events,       \* number of Destroyed events delivered
    handled,      \* number of Destroyed events whose closure returned
    winExists,    \* the "main" webview window exists
    winUrl,       \* URL loaded in the main window (<<>> = initial content)
    navCalls,     \* number of window.navigate calls
    ppc,          \* position of the background task / wait_for_health
    timeout,      \* `timeout` of wait_for_health, in ms
    url,          \* `url` of wait_for_health
    elapsed,      \* start.elapsed(), in ms
    attempt,      \* `attempt` of wait_for_health
    naps,         \* number of completed 500 ms sleeps
    lastProbe,    \* outcome of the last client.get(..).send()
    result        \* what wait_for_health returned

vars == << app, spc, port, sidecarPath, locateIn, spawnArgs, slot, child, spawns, kills,
           waits, hpc, hchild, events, handled, winExists, winUrl, navCalls,
           ppc, timeout, url, elapsed, attempt, naps, lastProbe, result >>

setupVars  == << spc, port, sidecarPath, locateIn, spawnArgs >>
childVars  == << child, spawns, kills, waits >>
handlerVars == << hpc, hchild, events, handled >>
windowVars == << winExists, winUrl, navCalls >>
pollVars   == << ppc, url, elapsed, attempt, naps, lastProbe, result >>

----------------------------------------------------------------------------
(* Bounds of the model *)

MaxPortSamples == 1
MaxDestroyEvents == 2
MaxTimeoutSteps == 3

(* Constants of the program *)

U16Max == 65535
HealthTimeoutSecs == 30
RequestTimeoutSecs == 2
SleepMillis == 500

None == "None"
Pid == "Some(child)"

----------------------------------------------------------------------------
(* Pure helpers *)

RECURSIVE Pow10(_)
Pow10(n) == IF n = 0 THEN 1 ELSE 10 * Pow10(n - 1)

\* The ports find_free_port may return in the model: u16 values of every
\* decimal length from five digits down.
Ports == { U16Max \div Pow10(i) : i \in 0..MaxPortSamples }

Digits == << "0", "1", "2", "3", "4", "5", "6", "7", "8", "9" >>

DigitSet == { Digits[i] : i \in 1..10 }

DigitChar(d) == Digits[d + 1]

DigitVal(c) == CHOOSE d \in 0..9 : Digits[d + 1] = c

IsDigit(c) == c \in DigitSet

\* u16::to_string / the {port} placeholder of format!: decimal digits,
\* most significant first, no padding.
RECURSIVE to_string(_)
to_string(n) ==
    IF n < 10 THEN << DigitChar(n) >>
    ELSE Append(to_string(n \div 10), DigitChar(n % 10))

\* Decimal parse of a digit sequence.
RECURSIVE ParseDigits(_)
ParseDigits(s) ==
    IF s = << >> THEN 0
    ELSE 10 * ParseDigits(SubSeq(s, 1, Len(s) - 1)) + DigitVal(s[Len(s)])

\* format!("http://127.0.0.1:{port}/api/health")
HealthUrl(p) == << "http://", "127.0.0.1", ":" >> \o to_string(p) \o << "/api/health" >>

\* A base URL built from a port obtained anew instead of the one passed in.
BaseUrlOtherPort(p) ==
    << "http://", "127.0.0.1", ":" >> \o to_string(CHOOSE q \in Ports : q # p)

\* format!("http://127.0.0.1:{port}")
BaseUrl(p) == << "http://", "127.0.0.1", ":" >> \o to_string(p)

\* The port component of a URL built as above: the digits after the ":".
UrlPort(u) ==
    LET ds == SelectSeq(SubSeq(u, 4, Len(u)), IsDigit)
    IN  ParseDigits(ds)

\* .args(["--port", &port.to_string(), "--host", "127.0.0.1", "--no-browser"])
SpawnArgs(p) == << "--port", to_string(p), "--host", "127.0.0.1", "--no-browser" >>

\* sidecar_name()
sidecar_name(windows) == IF windows THEN "firefly-studio.exe" ELSE "firefly-studio"

\* A locator that returns the packaged path whenever the resource directory
\* is available, without looking for the file.
find_sidecarNoExists(resDirOk, resExists, windows) ==
    IF resDirOk
    THEN << "<resource_dir>", "sidecar", sidecar_name(windows) >>
    ELSE << "<exe_dir>", sidecar_name(windows) >>

\* find_sidecar: resDirOk = resource_dir() is Ok, resExists = the candidate
\* under the resource directory exists on disk.
find_sidecar(resDirOk, resExists, windows) ==
    IF resDirOk /\ resExists
    THEN << "<resource_dir>", "sidecar", sidecar_name(windows) >>
    ELSE << "<exe_dir>", sidecar_name(windows) >>

\* What find_sidecar meets: the target platform, whether resource_dir() is
\* Ok, whether <resource_dir>/sidecar/<name> exists and whether
\* <exe_dir>/<name> exists.
LocateInputs ==
    [ known : { TRUE }, windows : BOOLEAN, resDirOk : BOOLEAN,
      resExists : BOOLEAN, exeExists : BOOLEAN ]

NoLocate ==
    [ known |-> FALSE, windows |-> FALSE, resDirOk |-> FALSE,
      resExists |-> FALSE, exeExists |-> FALSE ]

\* Whether the file Command::new(path) is to start exists.
PathExists(path, in) ==
    IF path[1] = "<resource_dir>" THEN in.resExists ELSE in.exeExists

StatusSamples == { 199, 200, 299, 300 }

NoProbe == [ kind |-> "none", status |-> 0 ]

\* Outcomes of client.get(&url).send().await
ProbeOutcomes ==
    { [ kind |-> "resp", status |-> s ] : s \in StatusSamples }
        \cup { [ kind |-> "err", status |-> 0 ] }

\* Time one request may take: at most the 2 s per-request timeout.
ProbeDurations == { 0, SleepMillis, RequestTimeoutSecs * 1000 }

HealthTimeout == HealthTimeoutSecs * 1000

\* A loop condition that gives up one sleep early.
WithinDeadlineEarly(e, t) == e + SleepMillis < t

\* A loop condition that still probes when the deadline has just been met.
WithinDeadlineInclusive(e, t) == e <= t

\* The loop condition of wait_for_health: start.elapsed() < timeout
WithinDeadline(e, t) == e < t

\* A success test that takes every status from 200 up as success.
IsSuccessFrom200(status) == 200 <= status

\* reqwest StatusCode::is_success
IsSuccess(status) == 200 <= status /\ status < 300

----------------------------------------------------------------------------
(* Initial state: Builder::default().manage(SidecarState(Mutex::new(None))) *)

InitCommon ==
    /\ app = "running"
    /\ kills = 0
    /\ waits = 0
    /\ hpc = "idle"
    /\ hchild = None
    /\ events = 0
    /\ handled = 0
    /\ winExists = TRUE
    /\ winUrl = << >>
    /\ navCalls = 0
    /\ url = << >>
    /\ elapsed = 0
    /\ attempt = 0
    /\ naps = 0
    /\ lastProbe = NoProbe
    /\ result = "none"

Init ==
    /\ InitCommon
    /\ spc = "port"
    /\ port = 0
    /\ sidecarPath = << >>
    /\ locateIn = NoLocate
    /\ spawnArgs = << >>
    /\ slot = None
    /\ child = "none"
    /\ spawns = 0
    /\ ppc = "unspawned"
    /\ timeout = HealthTimeout

----------------------------------------------------------------------------
(* The setup closure, main.rs 117-169 *)

\* let port = find_free_port();
SetupPort ==
    /\ app = "running" /\ spc = "port"
    /\ \E p \in Ports : port' = p
    /\ spc' = "locate"
    /\ UNCHANGED << sidecarPath, locateIn, spawnArgs, slot, childVars, handlerVars,
                    windowVars, pollVars, timeout, app >>

\* let sidecar_path = find_sidecar(&app.handle());
SetupLocate ==
    /\ app = "running" /\ spc = "locate"
    /\ \E in \in LocateInputs :
          /\ locateIn' = in
          /\ sidecarPath' = find_sidecar(in.resDirOk, in.resExists, in.windows)
    /\ spc' = "spawn"
    /\ UNCHANGED << port, spawnArgs, slot, childVars, handlerVars,
                    windowVars, pollVars, timeout, app >>

\* Command::new(&sidecar_path).args(..).spawn() succeeded, which takes a file
\* at sidecar_path.
SetupSpawnOk ==
    /\ app = "running" /\ spc = "spawn"
    /\ PathExists(sidecarPath, locateIn)
    /\ spawnArgs' = SpawnArgs(port)
    /\ child' = "running"
    /\ spawns' = spawns + 1
    /\ spc' = "store"
    /\ UNCHANGED << port, sidecarPath, locateIn, slot, kills, waits, handlerVars,
                    windowVars, pollVars, timeout, app >>

\* A spawn failure that is logged and not propagated: setup carries on.
SetupSpawnErrIgnored ==
    /\ app = "running" /\ spc = "spawn"
    /\ spawnArgs' = SpawnArgs(port)
    /\ spc' = "task"
    /\ UNCHANGED << port, sidecarPath, locateIn, slot, childVars, handlerVars,
                    windowVars, pollVars, timeout, app >>

\* A spawn failure after which setup tries the spawn again.
SetupSpawnErrRetries ==
    /\ app = "running" /\ spc = "spawn"
    /\ spawnArgs' = SpawnArgs(port)
    /\ spc' = "spawn"
    /\ UNCHANGED << port, sidecarPath, locateIn, slot, childVars, handlerVars,
                    windowVars, pollVars, timeout, app >>

\* .spawn() failed: map_err(..)? returns Err from the setup closure and the
\* application does not start.
SetupSpawnErr ==
    /\ app = "running" /\ spc = "spawn"
    /\ spawnArgs' = SpawnArgs(port)
    /\ spc' = "err"
    /\ app' = "exited"
    /\ UNCHANGED << port, sidecarPath, locateIn, slot, childVars, handlerVars,
                    windowVars, pollVars, timeout >>

\* A setup that never stores the handle.
SetupStoreSkipped ==
    /\ app = "running" /\ spc = "store"
    /\ spc' = "task"
    /\ UNCHANGED << port, sidecarPath, locateIn, spawnArgs, slot, childVars, handlerVars,
                    windowVars, pollVars, timeout, app >>

\* *state.0.lock().unwrap() = Some(child);  The guard is taken and dropped
\* inside the statement.
SetupStore ==
    /\ app = "running" /\ spc = "store"
    /\ slot' = Pid
    /\ spc' = "task"
    /\ UNCHANGED << port, sidecarPath, locateIn, spawnArgs, childVars, handlerVars,
                    windowVars, pollVars, timeout, app >>

\* tauri::async_runtime::spawn(async move { .. }); Ok(())
\* `port` moves into the task; `sidecar_path` and what find_sidecar looked at
\* go out of scope on return.
SetupTask ==
    /\ app = "running" /\ spc = "task"
    /\ ppc' = "spawned"
    /\ spc' = "ok"
    /\ sidecarPath' = << >>
    /\ locateIn' = NoLocate
    /\ UNCHANGED << port, spawnArgs, slot, childVars, handlerVars,
                    windowVars, url, elapsed, attempt, naps, lastProbe, result,
                    timeout, app >>

----------------------------------------------------------------------------
(* The sidecar process *)

\* The sidecar may exit on its own at any time; it stays unreaped until
\* someone waits on it.
ChildExits ==
    /\ child = "running"
    /\ child' = "exited"
    /\ UNCHANGED << app, setupVars, slot, spawns, kills, waits, handlerVars,
                    windowVars, pollVars, timeout >>

----------------------------------------------------------------------------
(* The window-event closure, main.rs 170-180.  The event loop delivers      *)
(* window events only once the setup closure has returned Ok, and one at a  *)
(* time.  The closure is registered for every window event; the first       *)
(* Destroyed event is the main window's.                                    *)

\* An event loop that delivers window events while setup is still running.
EventLoopEarly == app = "running" /\ spc \in { "store", "task", "ok" } /\ hpc = "idle"

EventLoopIdle == app = "running" /\ spc = "ok" /\ hpc = "idle"

\* A read of the slot that leaves the handle in it.
takeKeep(s) == [ taken |-> s, left |-> s ]

\* Option::take on the locked slot: the value taken and the value left.
take(s) == [ taken |-> s, left |-> None ]

\* if let WindowEvent::Destroyed = event {
\*     let child = window.state::<SidecarState>().0.lock().unwrap().take();
\*     if let Some(mut child) = child { ..
HandlerTake ==
    /\ EventLoopIdle
    /\ events < MaxDestroyEvents
    /\ events' = events + 1
    /\ winExists' = FALSE
    /\ hchild' = take(slot).taken
    /\ slot' = take(slot).left
    /\ IF take(slot).taken # None
          THEN hpc' = "kill" /\ handled' = handled
          ELSE hpc' = "idle" /\ handled' = handled + 1
    /\ UNCHANGED << app, setupVars, childVars, winUrl, navCalls, pollVars,
                    timeout >>

\* A closure that puts the handle back into the slot before killing.
HandlerKillRestores ==
    /\ app = "running" /\ hpc = "kill"
    /\ kills' = kills + 1
    /\ \E killOk \in BOOLEAN :
          child' = IF child = "running" /\ killOk THEN "killed" ELSE child
    /\ slot' = hchild
    /\ hpc' = "wait"
    /\ UNCHANGED << app, setupVars, spawns, waits, hchild, events,
                    handled, windowVars, pollVars, timeout >>

\* let _ = child.kill();  SIGKILL to a running process ends it; on a process
\* that already exited the call changes nothing; a failed call leaves the
\* process as it was.  The result is discarded.
HandlerKill ==
    /\ app = "running" /\ hpc = "kill"
    /\ kills' = kills + 1
    /\ \E killOk \in BOOLEAN :
          child' = IF child = "running" /\ killOk THEN "killed" ELSE child
    /\ hpc' = "wait"
    /\ UNCHANGED << app, setupVars, slot, spawns, waits, hchild, events,
                    handled, windowVars, pollVars, timeout >>

\* A wait that returns at once, whatever the state of the process.
HandlerWaitNoBlock ==
    /\ app = "running" /\ hpc = "wait"
    /\ child' = IF child \in { "exited", "killed" } THEN "reaped" ELSE child
    /\ waits' = waits + 1
    /\ hchild' = None
    /\ handled' = handled + 1
    /\ hpc' = "idle"
    /\ UNCHANGED << app, setupVars, slot, spawns, kills, events, windowVars,
                    pollVars, timeout >>

\* let _ = child.wait();  Blocks until the process has exited, then reaps
\* it.  The result is discarded; `child` is dropped at the end of the block.
HandlerWait ==
    /\ app = "running" /\ hpc = "wait"
    /\ child \in { "exited", "killed" }
    /\ child' = "reaped"
    /\ waits' = waits + 1
    /\ hchild' = None
    /\ handled' = handled + 1
    /\ hpc' = "idle"
    /\ UNCHANGED << app, setupVars, slot, spawns, kills, events, windowVars,
                    pollVars, timeout >>

\* The launcher process ends: .run(..) returns, or fails and .expect(..)
\* panics, or the process is ended from outside.  The async runtime and its
\* tasks end with it.  Nothing on this path touches the slot or the sidecar:
\* the only kill is the one in the window-event closure, and dropping a Child
\* does not kill it.
AppExit ==
    /\ EventLoopIdle
    /\ app' = "exited"
    /\ UNCHANGED << setupVars, slot, childVars, handlerVars, windowVars,
                    pollVars, timeout >>

----------------------------------------------------------------------------
(* wait_for_health, main.rs 72-111 *)

\* let url = ..; let client = ..; let start = Instant::now(); let mut attempt = 0;
PollEnter ==
    /\ app = "running" /\ ppc = "spawned"
    /\ url' = HealthUrl(port)
    /\ elapsed' = 0
    /\ attempt' = 0
    /\ ppc' = "head"
    /\ UNCHANGED << app, setupVars, slot, childVars, handlerVars, windowVars,
                    naps, lastProbe, result, timeout >>

\* while start.elapsed() < timeout { attempt += 1; client.get(&url).send() ..
PollHeadContinue ==
    /\ app = "running" /\ ppc = "head"
    /\ WithinDeadline(elapsed, timeout)
    /\ attempt' = attempt + 1
    /\ ppc' = "probe"
    /\ UNCHANGED << app, setupVars, slot, childVars, handlerVars, windowVars,
                    url, elapsed, naps, lastProbe, result, timeout >>

\* the loop condition is false: Err(format!("Sidecar did not become healthy ..
PollHeadTimedOut ==
    /\ app = "running" /\ ppc = "head"
    /\ ~ WithinDeadline(elapsed, timeout)
    /\ result' = "TimedOut"
    /\ ppc' = "timedout"
    /\ UNCHANGED << app, setupVars, slot, childVars, handlerVars, windowVars,
                    url, elapsed, attempt, naps, lastProbe, timeout >>

\* A probe whose transport error is returned to the caller at once.
PollProbeErrReturns ==
    /\ app = "running" /\ ppc = "probe"
    /\ \E o \in ProbeOutcomes, d \in ProbeDurations :
          /\ lastProbe' = o
          /\ elapsed' = elapsed + d
          /\ IF o.kind = "resp" /\ IsSuccess(o.status)
                THEN result' = "Ready" /\ ppc' = "ready"
                ELSE IF o.kind = "err"
                THEN result' = "Failed" /\ ppc' = "timedout"
                ELSE result' = result /\ ppc' = "sleep"
    /\ UNCHANGED << app, setupVars, slot, childVars, handlerVars, windowVars,
                    url, attempt, naps, timeout >>

\* A loop body that sleeps after every probe, before looking at the response.
PollProbeSleepsFirst ==
    /\ app = "running" /\ ppc = "probe"
    /\ \E o \in ProbeOutcomes, d \in ProbeDurations :
          /\ lastProbe' = o
          /\ IF o.kind = "resp" /\ IsSuccess(o.status)
                THEN /\ result' = "Ready" /\ ppc' = "ready"
                     /\ elapsed' = elapsed + d + SleepMillis
                     /\ naps' = naps + 1
                ELSE /\ result' = result /\ ppc' = "sleep"
                     /\ elapsed' = elapsed + d
                     /\ naps' = naps
    /\ UNCHANGED << app, setupVars, slot, childVars, handlerVars, windowVars,
                    url, attempt, timeout >>

\* match client.get(&url).send().await { Ok(resp) if is_success => return Ok(()),
\*                                        Ok(resp) => log, Err(e) => log }
PollProbe ==
    /\ app = "running" /\ ppc = "probe"
    /\ \E o \in ProbeOutcomes, d \in ProbeDurations :
          /\ lastProbe' = o
          /\ elapsed' = elapsed + d
          /\ IF o.kind = "resp" /\ IsSuccess(o.status)
                THEN result' = "Ready" /\ ppc' = "ready"
                ELSE result' = result /\ ppc' = "sleep"
    /\ UNCHANGED << app, setupVars, slot, childVars, handlerVars, windowVars,
                    url, attempt, naps, timeout >>

\* tokio::time::sleep(Duration::from_millis(500)).await;
PollSleep ==
    /\ app = "running" /\ ppc = "sleep"
    /\ elapsed' = elapsed + SleepMillis
    /\ naps' = naps + 1
    /\ lastProbe' = NoProbe
    /\ ppc' = "head"
    /\ UNCHANGED << app, setupVars, slot, childVars, handlerVars, windowVars,
                    url, attempt, result, timeout >>

----------------------------------------------------------------------------
(* The background task, main.rs 153-166 *)

\* A success arm that navigates without looking the window up.
TaskReadyNoLookup ==
    /\ app = "running" /\ ppc = "ready"
    /\ ppc' = "navigate"
    /\ UNCHANGED << app, setupVars, slot, childVars, handlerVars, windowVars,
                    url, elapsed, attempt, naps, lastProbe, result, timeout >>

\* Ok(()) => { let url = ..; if let Some(window) = handle.get_webview_window("main")
TaskReady ==
    /\ app = "running" /\ ppc = "ready"
    /\ ppc' = IF winExists THEN "navigate" ELSE "done"
    /\ UNCHANGED << app, setupVars, slot, childVars, handlerVars, windowVars,
                    url, elapsed, attempt, naps, lastProbe, result, timeout >>

\* let _ = window.navigate(url.parse().unwrap());  On a window destroyed
\* since the lookup the call fails and the result is discarded.
TaskNavigate ==
    /\ app = "running" /\ ppc = "navigate"
    /\ navCalls' = navCalls + 1
    /\ winUrl' = IF winExists THEN BaseUrl(port) ELSE winUrl
    /\ ppc' = "done"
    /\ UNCHANGED << app, setupVars, slot, childVars, handlerVars, winExists,
                    url, elapsed, attempt, naps, lastProbe, result, timeout >>

\* An error arm that navigates all the same.
TaskTimedOutNavigates ==
    /\ app = "running" /\ ppc = "timedout"
    /\ ppc' = IF winExists THEN "navigate" ELSE "done"
    /\ UNCHANGED << app, setupVars, slot, childVars, handlerVars, windowVars,
                    url, elapsed, attempt, naps, lastProbe, result, timeout >>

\* An error arm that starts the polling over.
TaskTimedOutRetries ==
    /\ app = "running" /\ ppc = "timedout"
    /\ ppc' = "spawned"
    /\ UNCHANGED << app, setupVars, slot, childVars, handlerVars, windowVars,
                    url, elapsed, attempt, naps, lastProbe, result, timeout >>

\* An error arm that gives up on the sidecar: takes the handle and kills it.
TaskTimedOutKills ==
    /\ app = "running" /\ ppc = "timedout"
    /\ ppc' = "done"
    /\ slot' = None
    /\ kills' = IF slot # None THEN kills + 1 ELSE kills
    /\ child' = IF slot # None /\ child = "running" THEN "killed" ELSE child
    /\ UNCHANGED << app, setupVars, spawns, waits, handlerVars, windowVars,
                    url, elapsed, attempt, naps, lastProbe, result, timeout >>

\* Err(e) => { eprintln!("[studio] {e}"); }
TaskTimedOut ==
    /\ app = "running" /\ ppc = "timedout"
    /\ ppc' = "done"
    /\ UNCHANGED << app, setupVars, slot, childVars, handlerVars, windowVars,
                    url, elapsed, attempt, naps, lastProbe, result, timeout >>

----------------------------------------------------------------------------

Next ==
    \/ SetupPort
    \/ SetupLocate
    \/ SetupSpawnOk
    \/ SetupSpawnErr
    \/ SetupStore
    \/ SetupTask
    \/ ChildExits
    \/ HandlerTake
    \/ HandlerKill
    \/ HandlerWait
    \/ AppExit
    \/ PollEnter
    \/ PollHeadContinue
    \/ PollHeadTimedOut
    \/ PollProbe
    \/ PollSleep
    \/ TaskReady
    \/ TaskNavigate
    \/ TaskTimedOut

Spec == Init /\ [][Next]_vars

\* The event loop's thread runs the window-event closure to its end unless a
\* call in it blocks: weak fairness of its two calls.  Nothing obliges the
\* sidecar to exit on its own.
SpecFair ==
    Init /\ [][Next]_vars /\ WF_vars(HandlerKill) /\ WF_vars(HandlerWait)

----------------------------------------------------------------------------
(* wait_for_health on its own: the task has just been spawned for a live   *)
(* sidecar, and `timeout` ranges over small multiples of half a sleep and  *)
(* the 30 s of main.  The runtime keeps scheduling the task: every request     *)
(* ends within its 2 s timeout and every sleep ends, hence weak fairness   *)
(* of the task's steps.                                                    *)

TimeoutChoices ==
    { (k * SleepMillis) \div 2 : k \in 0..(2 * MaxTimeoutSteps) }
        \cup { HealthTimeout }

InitPoll ==
    /\ InitCommon
    /\ spc = "ok"
    /\ port \in Ports
    /\ sidecarPath = << >>
    /\ locateIn = NoLocate
    /\ spawnArgs = SpawnArgs(port)
    /\ slot = Pid
    /\ child = "running"
    /\ spawns = 1
    /\ ppc = "spawned"
    /\ timeout \in TimeoutChoices

NextPoll ==
    \/ PollEnter
    \/ PollHeadContinue
    \/ PollHeadTimedOut
    \/ PollProbe
    \/ PollSleep

SpecPoll == InitPoll /\ [][NextPoll]_vars /\ WF_vars(NextPoll)

----------------------------------------------------------------------------
(* Properties *)

\* C1: once the window-destroy closure has returned for the event that took
\* the child out of the slot, the child has been sent a kill request and has
\* been waited on: no state has a finished destroy closure and a child that
\* is still running (or unreaped).
C1_ReapedBeforeReturn ==
    handled >= 1 =>
        /\ child = "reaped"
        /\ kills >= 1
        /\ waits >= 1
        /\ hchild = None

C1_Witness == handled >= 1 /\ spawns = 1 /\ child = "reaped" /\ kills = 1

\* C2: wait_for_health returns Ok only in the step in which the request just
\* issued came back with a 2xx status; a non-2xx status or a transport error
\* never yields Ready.
C2_ReadyOnly2xx ==
    [][ (result' = "Ready" /\ result # "Ready") =>
            /\ ppc = "probe"
            /\ attempt >= 1
            /\ lastProbe'.kind = "resp"
            /\ lastProbe'.status \in 200..299 ]_vars

C2_Witness ==
    result = "Ready" /\ lastProbe.kind = "resp" /\ lastProbe.status = 299

C4_PortsAgree ==
    /\ spawnArgs # << >> => ParseDigits(spawnArgs[2]) = port
    /\ url # << >> => UrlPort(url) = port
    /\ winUrl # << >> =>
          /\ UrlPort(winUrl) = port
          /\ UrlPort(winUrl) = UrlPort(url)
          /\ UrlPort(winUrl) = ParseDigits(spawnArgs[2])

C4_Witness ==
    /\ winUrl # << >> /\ navCalls = 1 /\ port \in Ports
    /\ UrlPort(winUrl) = port /\ UrlPort(url) = port
    /\ ParseDigits(spawnArgs[2]) = port

C6_Idempotent ==
    [][ /\ kills' <= spawns' /\ waits' <= spawns'
        /\ (handled >= 1 /\ events' = events + 1) =>
               /\ slot = None /\ hchild' = None
               /\ hpc' = "idle" /\ handled' = handled + 1
               /\ UNCHANGED << slot, child, kills, waits >> ]_vars

C6_Witness == events = 2 /\ handled = 2 /\ kills = 1 /\ waits = 1

\* C7: the take leaves the slot empty before kill and wait are called, the
\* handle is never in the slot and in the closure at once, and after the
\* first take nothing puts a handle back: the slot stays empty.
C7_SlotEmptyAfterTake ==
    /\ hpc \in { "kill", "wait" } => (slot = None /\ hchild = Pid)
    /\ ~ (slot # None /\ hchild # None)
    /\ events >= 1 => slot = None
    /\ handled >= 1 => (slot = None /\ hchild = None)

C7_Witness == hpc = "wait" /\ slot = None /\ hchild = Pid /\ kills = 1

\* C8: no health probe (nor any other step of the health task) happens
\* before the spawn has succeeded and the handle has been stored, and none
\* in a run whose spawn failed.
C8_SpawnBeforePoll ==
    /\ (ppc # "unspawned" \/ attempt > 0 \/ url # << >>) =>
          /\ spc = "ok" /\ spawns = 1 /\ child # "none"
          /\ (slot = Pid \/ events >= 1)
    /\ spc = "err" => (ppc = "unspawned" /\ attempt = 0 /\ spawns = 0)

C8_Witness == ppc = "probe" /\ attempt = 1 /\ slot = Pid /\ spawns = 1

\* C9: the window is navigated only after wait_for_health has returned
\* Ready, and at most once per run.
C9_ReadyBeforeNavigate ==
    [][ /\ navCalls' > navCalls => (result = "Ready" /\ navCalls = 0)
        /\ winUrl' # winUrl => (result = "Ready" /\ winUrl = << >>) ]_vars

C9_Witness == navCalls = 1 /\ winUrl = BaseUrl(port) /\ result = "Ready"

\* C10: the health task is not cancelled by the destroy closure, and what it
\* does afterwards is a no-op: a Ready handled after a Destroyed event finds
\* no window and calls no navigate, a navigate on a window destroyed since
\* the lookup loads nothing, and no step of the task changes the slot or the
\* sidecar process.
C10_AbandonedPollerNoOp ==
    [][ (ppc # "unspawned" /\ ppc' # ppc) =>
            /\ UNCHANGED << slot, child, spawns, kills, waits, hpc, hchild, app >>
            /\ events >= 1 => winUrl' = winUrl
            /\ (events >= 1 /\ ppc = "ready") =>
                   (ppc' = "done" /\ navCalls' = navCalls)
            /\ (events >= 1 /\ ppc = "timedout") => ppc' = "done" ]_vars

C10_Witness ==
    /\ handled >= 1 /\ child = "reaped" /\ slot = None
    /\ ppc = "done" /\ result = "Ready" /\ navCalls = 0 /\ winUrl = << >>

\* C11: a spawn failure is fatal: once a spawn has been attempted and has
\* failed, setup has returned an error and the launcher has stopped, the slot
\* is empty, the health task was never started, nothing was navigated, and no
\* second spawn is attempted.
C11_SpawnFailureFatal ==
    (spawnArgs # << >> /\ spawns = 0) =>
        /\ spc = "err" /\ app = "exited"
        /\ slot = None /\ child = "none"
        /\ ppc = "unspawned" /\ attempt = 0 /\ url = << >>
        /\ navCalls = 0 /\ winUrl = << >>

C11_Witness ==
    /\ spc = "err" /\ spawnArgs = SpawnArgs(port) /\ spawns = 0
    /\ slot = None /\ ppc = "unspawned"

C13_TimedOutOnlyReported ==
    [][ /\ result' = "TimedOut" =>
               /\ winUrl' = << >> /\ navCalls' = 0
               /\ spawns' = 1
               /\ ppc' \in { "timedout", "done" }
        /\ result = "TimedOut" =>
               /\ result' = "TimedOut"
               /\ UNCHANGED << attempt, naps, elapsed, url, spawns >>
        /\ (ppc = "timedout" /\ ppc' # ppc) =>
               (ppc' = "done" /\ UNCHANGED << app, winExists, slot, child >>) ]_vars

C13_Witness ==
    /\ result = "TimedOut" /\ ppc = "done" /\ app = "running"
    /\ winExists /\ winUrl = << >> /\ navCalls = 0 /\ attempt >= 12

\* C14: a 2xx probe ends wait_for_health at once: no sleep and no probe
\* follows it, so Ready after n probes has taken n - 1 sleeps; with a 2xx on
\* the first probe Ready is returned after one attempt and no sleep.
C14_ReadyWithoutSleep ==
    [][ /\ result' = "Ready" =>
               /\ attempt' >= 1 /\ naps' = attempt' - 1
               /\ ppc' \in { "ready", "navigate", "done" }
        /\ (result' = "Ready" /\ attempt' = 1) => naps' = 0
        /\ result = "Ready" =>
               /\ result' = "Ready"
               /\ UNCHANGED << attempt, naps, elapsed, lastProbe >> ]_vars

C14_Witness ==
    /\ result = "Ready" /\ attempt = 1 /\ naps = 0 /\ elapsed = 0
    /\ lastProbe.status = 200

C16_ChildEndsWithLauncher ==
    (app = "exited" /\ spawns >= 1) => (child = "reaped" /\ kills >= 1)

\* C17: whatever kill and wait return, and also when the child has already
\* exited, a destroy closure that took the handle goes on from kill to wait
\* and returns, with the slot empty: it does not block forever.
C17_HandlerReturns ==
    (hpc = "kill") ~> (hpc = "idle" /\ slot = None /\ hchild = None)

\* C18: find_sidecar returns <resource_dir>/sidecar/<name> exactly when the
\* resource directory is available and that file exists; in every other
\* case it returns <exe_dir>/<name>, whether or not that file exists.  <name>
\* is firefly-studio.exe on Windows and firefly-studio elsewhere.
C18_TwoTierLocate ==
    spc \in { "spawn", "store", "task" } =>
        LET name == IF locateIn.windows THEN "firefly-studio.exe"
                                        ELSE "firefly-studio"
        IN  /\ locateIn.known
            /\ (locateIn.resDirOk /\ locateIn.resExists) =>
                   sidecarPath = << "<resource_dir>", "sidecar", name >>
            /\ ~ (locateIn.resDirOk /\ locateIn.resExists) =>
                   sidecarPath = << "<exe_dir>", name >>

C18_Witness ==
    /\ spc = "spawn"
    /\ locateIn.resDirOk /\ ~ locateIn.resExists /\ ~ locateIn.exeExists
    /\ sidecarPath = << "<exe_dir>", "firefly-studio" >>

\* C19 as stated: a probe is started only while elapsed < timeout (none at
\* all for a timeout of zero), TimedOut reports as many attempts as probes
\* were issued, each followed by a sleep, and the attempts never exceed
\* timeout / 500 ms.
C19_AttemptsWithinQuotient ==
    /\ ppc = "probe" => elapsed < timeout
    /\ timeout = 0 => attempt = 0
    /\ result = "TimedOut" => (attempt = naps /\ elapsed >= timeout)
    /\ attempt * 500 <= timeout

\* C19, amended: as above, with the bound rounded up: attempt n is started
\* only after n - 1 sleeps of 500 ms and before the deadline, so
\* (n - 1) * 500 ms < timeout, that is n <= ceiling(timeout / 500 ms): 60 for
\* 30 s, and 1 for a timeout of 250 ms.
C19_AttemptsWithinCeiling ==
    /\ ppc = "probe" => elapsed < timeout
    /\ timeout = 0 => attempt = 0
    /\ result = "TimedOut" => (attempt = naps /\ elapsed >= timeout)
    /\ attempt >= 1 => (attempt - 1) * 500 < timeout
    /\ timeout = 30000 => attempt <= 60

C19_Witness ==
    /\ result = "TimedOut" /\ timeout = 750 /\ attempt = 2 /\ naps = 2
    /\ elapsed = 1000

\* C20: no step of wait_for_health or of the background task changes the
\* slot or the sidecar process: the handle leaves the slot only by the take
\* of a Destroyed event, and the process is killed only by the destroy
\* closure.  So after TimedOut (as after Ready) the handle is still in the
\* slot and the sidecar has not been killed until a Destroyed event comes.
C20_PollerLeavesChildAlone ==
    [][ /\ (ppc # "unspawned" /\ ppc' # ppc) =>
               UNCHANGED << slot, child, spawns, kills, waits, hchild >>
        /\ (result' # "none" /\ events' = 0) =>
               (slot' = Pid /\ kills' = 0 /\ child' \in { "running", "exited" })
        /\ (slot = Pid /\ slot' # Pid) => (events' = events + 1 /\ hpc = "idle")
        /\ kills' # kills => hpc = "kill" ]_vars

C20_Witness ==
    /\ result = "TimedOut" /\ ppc = "done" /\ events = 0
    /\ slot = Pid /\ child = "running" /\ kills = 0

====
